---- MODULE Spec2Model ----
(***************************************************************************)
(* Stream-wise sessions calculator (src/app.py).                           *)
(*                                                                         *)
(* Two specifications share one module:                                    *)
(*   SpecUrl  - clean_url applied to URLs built from a few fragments;      *)
(*   Spec     - one click of "Run Aggregation": main calls                 *)
(*              process_and_aggregate_data over the period files.          *)
(*                                                                         *)
(* A Python str is a sequence of one-character strings, so that replace,   *)
(* split and urlparse are computed character by character.                 *)
(***************************************************************************)
EXTENDS Integers, Sequences, FiniteSets, TLC

VARIABLES
  \* ---- clean_url on its own (SpecUrl) ----
  upc,            \* "input" | "cleaned" | "recleaned" | "off"
  url,            \* the argument of clean_url
  stripped,       \* cleaned_url after line 18 (listing and unwanted terms removed)
  truncated,      \* cleaned_url after line 25 (suffix markers cut)
  once,           \* clean_url(url)
  twice,          \* clean_url(clean_url(url))
  \* ---- one run of main / process_and_aggregate_data (Spec) ----
  pc,             \* position in main and in the per-period loop
  input_url_files,\* the period files handed to process_and_aggregate_data
  mapper_file,    \* the uploaded mapper file
  idx,            \* loop index of line 47 (0-based)
  df1,            \* the period table of the current iteration
  df2,            \* the mapper table as read in the current iteration
  mrgdf,          \* the joined table of the current iteration
  result,         \* the period aggregate of the current iteration
  final_result,   \* the accumulator of process_and_aggregate_data
  result_df,      \* main's result_df: the table returned, or NoTable
  error,          \* the exception raised by process_and_aggregate_data, or NoError
  output_file,    \* what main wrote to the output path, or NoFile
  mapper_reads,   \* history: number of pd.read_excel(mapper_file) calls
  steps,          \* history: the steps taken in the current iteration, in order
  aggs            \* history: the period aggregates produced so far, in order

urlVars  == <<upc, url, stripped, truncated, once, twice>>
pipeVars == <<pc, input_url_files, mapper_file, idx, df1, df2, mrgdf, result,
              final_result, result_df, error, output_file, mapper_reads, steps, aggs>>
vars     == <<urlVars, pipeVars>>

----------------------------------------------------------------------------
(* Bounds of the model.                                                    *)
MaxFrags      == 3   \* fragments concatenated into a URL under SpecUrl
MaxRows       == 2   \* session rows per period file

----------------------------------------------------------------------------
(* Python str operations.                                                  *)

Min(S) == CHOOSE x \in S : \A y \in S : x <= y

\* pat occurs in s at (1-based) position i
IsAt(s, pat, i) ==
  /\ i >= 1
  /\ i + Len(pat) - 1 <= Len(s)
  /\ \A k \in 1..Len(pat) : s[i + k - 1] = pat[k]

\* s.find(pat, from), 1-based; 0 when pat does not occur
Find(s, pat, from) ==
  LET hits == {i \in from..(Len(s) - Len(pat) + 1) : IsAt(s, pat, i)}
  IN  IF hits = {} THEN 0 ELSE Min(hits)

\* pat in s
Contains(s, pat) == Find(s, pat, 1) # 0

\* s[i:] (1-based i)
Drop(s, i) == SubSeq(s, i, Len(s))

\* s.replace(old, ''): non-overlapping occurrences removed left to right
RECURSIVE Remove(_, _)
Remove(s, old) ==
  LET i == Find(s, old, 1)
  IN  IF i = 0 THEN s
      ELSE SubSeq(s, 1, i - 1) \o Remove(Drop(s, i + Len(old)), old)

\* s.split(sep)[0]
SplitHead(s, sep) ==
  LET i == Find(s, sep, 1)
  IN  IF i = 0 THEN s ELSE SubSeq(s, 1, i - 1)

\* s.lstrip(chars): s from its first character that is not in chars
LStrip(s, chars) ==
  LET keep == {i \in 1..Len(s) : s[i] \notin chars}
  IN  IF keep = {} THEN <<>> ELSE Drop(s, Min(keep))

\* every occurrence of the characters of chars deleted from s
DeleteChars(s, chars) == SelectSeq(s, LAMBDA c : c \notin chars)

\* F applied to the value of e (TLC passes operator arguments unevaluated;
\* a bound variable holds a value)
Then(e, F(_)) == CHOOSE r \in {F(v) : v \in {e}} : TRUE

----------------------------------------------------------------------------
(* clean_url, lines 8-28.                                                  *)

unwanted_terms ==
  << <<"-", "c", "o", "u", "r", "s", "e", "s">>,
     <<"-", "p", "i", "c", "t", "u", "r", "e", "s">>,
     <<"-", "a", "d", "m", "i", "s", "s", "i", "o", "n">>,
     <<"-", "c", "o", "n", "n", "e", "c", "t">>,
     <<"-", "c", "a", "m", "p", "u", "s">>,
     <<"-", "p", "l", "a", "c", "e", "m", "e", "n", "t">>,
     <<"-", "r", "e", "v", "i", "e", "w", "s">>,
     <<"-", "s", "c", "h", "o", "l", "a", "r", "s", "h", "i", "p">>,
     <<"/", "r", "e", "v", "i", "e", "w", "s">>,
     <<"/", "c", "u", "t", "-", "o", "f", "f">>,
     <<"/", "c", "o", "u", "r", "s", "e", "s", "_", "f", "e", "e", "s">>,
     <<"/", "p", "i", "c", "t", "u", "r", "e", "s">>,
     <<"/", "a", "d", "m", "i", "s", "s", "i", "o", "n">>,
     <<"/", "c", "a", "m", "p", "u", "s">> >>

ListingColleges == <<"/", "c", "o", "l", "l", "e", "g", "e", "s", "/">>
ListingCollege == <<"/", "c", "o", "l", "l", "e", "g", "e", "/">>
SufDpid == <<"-", "d", "p", "i", "d">>
SufDp == <<"-", "d", "p">>
SufCpd == <<"-", "c", "p", "d">>

\* urllib.parse.uses_params
uses_params ==
  { <<>>,
    <<"f", "t", "p">>,
    <<"h", "d", "l">>,
    <<"p", "r", "o", "s", "p", "e", "r", "o">>,
    <<"h", "t", "t", "p">>,
    <<"i", "m", "a", "p">>,
    <<"h", "t", "t", "p", "s">>,
    <<"s", "h", "t", "t", "p">>,
    <<"r", "t", "s", "p">>,
    <<"r", "t", "s", "p", "s">>,
    <<"r", "t", "s", "p", "u">>,
    <<"s", "i", "p">>,
    <<"s", "i", "p", "s">>,
    <<"m", "m", "s">>,
    <<"s", "f", "t", "p">>,
    <<"t", "e", "l">> }

\* line 15
RemoveListing(s) == Remove(Remove(s, ListingColleges), ListingCollege)

\* lines 17-18 for the terms lo..hi: they are removed one after the other, in
\* list order (the first half of the range, then the second half)
RECURSIVE RemoveTermRange(_, _, _)
RemoveTermRange(s, lo, hi) ==
  IF lo = hi THEN Remove(s, unwanted_terms[lo])
  ELSE Then(RemoveTermRange(s, lo, (lo + hi) \div 2),
            LAMBDA t : RemoveTermRange(t, (lo + hi) \div 2 + 1, hi))

RemoveTerms(s) == RemoveTermRange(s, 1, Len(unwanted_terms))

\* lines 20-25: split(...)[0] of a string without the marker is the string
SuffixTruncateNoDp(s) == SplitHead(SplitHead(s, SufDpid), SufCpd)
SuffixTruncate(s) == SplitHead(SplitHead(SplitHead(s, SufDpid), SufDp), SufCpd)

(* urllib.parse.urlsplit as called on line 27 (CPython 3.11).  The alphabet *)
(* of the model has the tab of the three characters urlsplit deletes, and   *)
(* the space and the tab of the characters it strips from the left.         *)
Letters == {"a", "b", "c", "d", "e", "f", "g", "h", "i", "j", "k", "l", "m",
            "n", "o", "p", "q", "r", "s", "t", "u", "v", "w", "x", "y", "z"}
Digits == {"0", "1", "2", "3", "4", "5", "6", "7", "8", "9"}
scheme_chars == Letters \cup Digits \cup {"+", "-", "."}
WhatwgC0ControlOrSpace == {" ", "\t"}
UnsafeUrlBytesToRemove == {"\t"}

\* [scheme, rest] of a string already stripped
SplitScheme(u) ==
  LET i == Find(u, <<":">>, 1)
  IN  IF /\ i > 1
         /\ u[1] \in Letters
         /\ \A k \in 1..(i - 1) : u[k] \in scheme_chars
      THEN [scheme |-> SubSeq(u, 1, i - 1), rest |-> Drop(u, i + 1)]
      ELSE [scheme |-> <<>>, rest |-> u]

\* _splitnetloc(url, 2): the rest of the URL after the network location
AfterNetloc(u) ==
  IF Len(u) >= 2 /\ u[1] = "/" /\ u[2] = "/"
  THEN LET ends == {Find(u, <<c>>, 3) : c \in {"/", "?", "#"}} \ {0}
       IN  IF ends = {} THEN <<>> ELSE Drop(u, Min(ends))
  ELSE u

\* _splitparams(url)[0]
SplitParams(p) ==
  LET slashes == {i \in 1..Len(p) : p[i] = "/"}
      from    == IF slashes = {} THEN 1
                 ELSE CHOOSE i \in slashes : \A j \in slashes : j <= i
      i       == Find(p, <<";">>, from)
  IN  IF i = 0 THEN p ELSE SubSeq(p, 1, i - 1)

\* the path of a URL whose scheme has been split off
PathAfterScheme(sch) ==
  LET path(u3) == IF sch.scheme \in uses_params /\ Contains(u3, <<";">>)
                  THEN SplitParams(u3) ELSE u3
  IN  Then(SplitHead(SplitHead(AfterNetloc(sch.rest), <<"#">>), <<"?">>), path)

\* urllib.parse.urlparse(u).path
UrlPath(u) ==
  Then(DeleteChars(LStrip(u, WhatwgC0ControlOrSpace), UnsafeUrlBytesToRemove),
       LAMBDA u1 : Then(SplitScheme(u1), PathAfterScheme))

\* line 28: path.lstrip("/")
LStripOneSlash(p) == IF p # <<>> /\ p[1] = "/" THEN Tail(p) ELSE p
StripLeadingSlashes(p) == LStrip(p, {"/"})

\* the function, lines 15-28
clean_url(u) ==
  Then(RemoveListing(u), LAMBDA a :
    Then(RemoveTerms(a), LAMBDA b :
      Then(SuffixTruncate(b), LAMBDA c :
        Then(UrlPath(c), StripLeadingSlashes))))

----------------------------------------------------------------------------
(* Tables.  A table read from a spreadsheet is [name, columns, rows]: the    *)
(* set of its column names and its rows in order; a row has every field of   *)
(* the model; columns says which of them the table has, and the field of a   *)
(* column it has not is a placeholder (Absent, NoUrl, 0).  NaN is an empty   *)
(* stream cell.  A table built by pivot_table/merge is [columns, data]: the   *)
(* ordered column names and, per index label, the cell of every column, a     *)
(* cell being <<v>> for the number v and Null for a missing value.            *)

Absent == "absent"
NaN    == "NaN"
NoUrl  == << "absent" >>
Null   == << >>

\* lines 41-45
custom_column_names ==
  << "This_week_2024_Total_session",
     "Last_week_2024_Total_session",
     "This_week_2023_Total_session" >>

\* str.lower() on the column names that occur in the inputs
Lower(c) ==
  CASE c = "URL"         -> "url"
    [] c = "Sessions"    -> "sessions"
    [] c = "Stream"      -> "stream"
    [] c = "Cleaned_URL" -> "cleaned_url"
    [] OTHER             -> c

\* lines 31-33
normalize_columns(df) == [df EXCEPT !.columns = {Lower(c) : c \in df.columns}]

\* pd.DataFrame(), line 37
EmptyFrame == [columns |-> <<>>, data |-> <<>>]

\* DataFrame.empty, line 75: some axis has length 0
IsEmpty(t) == Len(t.columns) = 0 \/ DOMAIN t.data = {}

ColumnSet(t) == {t.columns[i] : i \in 1..Len(t.columns)}

----------------------------------------------------------------------------
(* The uploads.                                                            *)

UrlA1 == <<"/", "c", "o", "l", "l", "e", "g", "e", "s", "/", "a", "-", "d", "p", "i", "d", "1">>
UrlA2 == <<"/", "c", "o", "l", "l", "e", "g", "e", "/", "a", "-", "c", "o", "u", "r", "s", "e", "s">>
UrlB  == <<"/", "c", "o", "l", "l", "e", "g", "e", "s", "/", "b", "/", "r", "e", "v", "i", "e", "w", "s">>
KeyA  == <<"a">>
KeyB  == <<"b">>

\* the (url, sessions) pairs a period export is made of
SessionRows ==
  { [url |-> UrlA1, sessions |-> 1],
    [url |-> UrlA2, sessions |-> 2],
    [url |-> UrlB,  sessions |-> 1] }

\* the headers a period export comes with; an export that has a stream column
\* of its own has "S2" in every row of it
PeriodHeaders ==
  { {"url", "sessions"}, {"URL", "Sessions"}, {"url", "sessions", "Stream"},
    {"url"}, {"Sessions"} }

SeqsUpTo(S, n) == UNION {[1..k -> S] : k \in 1..n}

PeriodRow(r, header) ==
  LET cols == {Lower(c) : c \in header}
  IN  [url         |-> IF "url" \in cols THEN r.url ELSE NoUrl,
       sessions    |-> IF "sessions" \in cols THEN r.sessions ELSE 0,
       cleaned_url |-> NoUrl,
       stream      |-> IF "stream" \in cols THEN "S2" ELSE Absent]

\* pd.read_excel(input_file), line 49: the tables a period file may hold
PeriodTables(name) ==
  { [name |-> name, columns |-> h,
     rows |-> [i \in DOMAIN rs |-> PeriodRow(rs[i], h)]] :
      h \in PeriodHeaders, rs \in SeqsUpTo(SessionRows, MaxRows) }

MapperHeaders ==
  { {"Cleaned_URL", "Stream"}, {"cleaned_url"}, {"Stream"} }

\* (cleaned_url, stream) rows of the mapper; the same key may repeat
MapperRowSeqs ==
  { << [cleaned_url |-> KeyA, stream |-> "S1"] >>,
    << [cleaned_url |-> KeyA, stream |-> "S1"], [cleaned_url |-> KeyB, stream |-> "S2"] >>,
    << [cleaned_url |-> KeyA, stream |-> "S1"], [cleaned_url |-> KeyB, stream |-> "S1"] >>,
    << [cleaned_url |-> KeyA, stream |-> "S1"], [cleaned_url |-> KeyA, stream |-> "S1"] >>,
    << [cleaned_url |-> KeyA, stream |-> "S1"], [cleaned_url |-> KeyA, stream |-> "S2"] >> }

MapperRow(r, header) ==
  LET cols == {Lower(c) : c \in header}
  IN  [cleaned_url |-> IF "cleaned_url" \in cols THEN r.cleaned_url ELSE NoUrl,
       stream      |-> IF "stream" \in cols THEN r.stream ELSE Absent]

\* the mapper files that may be uploaded
MapperTables ==
  { [name |-> "mapper", columns |-> h,
     rows |-> [i \in DOMAIN rs |-> MapperRow(rs[i], h)]] :
      h \in MapperHeaders, rs \in MapperRowSeqs }

PeriodNames == << "period1", "period2", "period3" >>

----------------------------------------------------------------------------
(* The steps of process_and_aggregate_data.                                 *)

NoTable == [none |-> "table"]
NoFile  == [none |-> "file"]
NoError == [type |-> "none", missing |-> "none", file |-> "none"]

RECURSIVE SumTo(_, _)
SumTo(q, n) == IF n = 0 THEN 0 ELSE q[n] + SumTo(q, n - 1)

Sum(q) == SumTo(q, Len(q))

\* line 52
InputColumnsOkUrlOnly(df) == "url" \in df.columns
InputColumnsOk(df) == "url" \in df.columns /\ "sessions" \in df.columns

\* line 56
WithCleanedUrl(df) ==
  [name    |-> df.name,
   columns |-> df.columns \cup {"cleaned_url"},
   rows    |-> [i \in DOMAIN df.rows |->
                  [df.rows[i] EXCEPT !.cleaned_url = clean_url(df.rows[i].url)]]]

\* line 62
MapperColumnsOk(df) == "cleaned_url" \in df.columns

\* the non-key columns both tables have: pd.merge renames them c_x and c_y
Overlap(l, r) == (l.columns \cap r.columns) \ {"cleaned_url"}

\* the rows a left row turns into: one per mapper row with its key, in mapper
\* order, or the row itself with the mapper's columns null when none has it
JoinedRows(row, l, r) ==
  LET hits == SelectSeq(r.rows, LAMBDA m : m.cleaned_url = row.cleaned_url)
      strm(v) == IF "stream" \in Overlap(l, r) THEN Absent
                 ELSE IF "stream" \in r.columns THEN v
                 ELSE row.stream
  IN  IF hits = <<>> THEN << [row EXCEPT !.stream = strm(NaN)] >>
      ELSE [i \in DOMAIN hits |-> [row EXCEPT !.stream = strm(hits[i].stream)]]

RECURSIVE JoinFrom(_, _, _)
JoinFrom(l, r, i) ==
  IF i > Len(l.rows) THEN <<>>
  ELSE JoinedRows(l.rows[i], l, r) \o JoinFrom(l, r, i + 1)

\* pd.merge(df1, df2, on='cleaned_url', how='left'), line 66
LeftJoin(l, r) ==
  [name    |-> l.name,
   columns |-> ((l.columns \cup r.columns) \ Overlap(l, r))
                 \cup {c \o "_x" : c \in Overlap(l, r)}
                 \cup {c \o "_y" : c \in Overlap(l, r)},
   rows    |-> JoinFrom(l, r, 1)]

\* line 69
StreamColumnOk(df) == "stream" \in df.columns

SessionsOf(df, label) ==
  LET hit == SelectSeq(df.rows, LAMBDA r : r.stream = label)
  IN  Sum([i \in DOMAIN hit |-> hit[i].sessions])

\* the sums of sessions for the streams of groups, as a table
SumsBy(df, groups) ==
  IF groups = {} THEN EmptyFrame
  ELSE [columns |-> << "sessions" >>,
        data    |-> [label \in groups |->
                       [c \in {"sessions"} |-> << SessionsOf(df, label) >>]]]

\* the same with the null group kept (dropna=False)
PivotTableKeepNaN(df) == SumsBy(df, {df.rows[i].stream : i \in DOMAIN df.rows})

\* line 72: pivot_table(index='stream', values='sessions', aggfunc='sum')
\* groups by stream with dropna=True, its default: rows whose stream is null
\* are in no group, and a table left without rows loses its columns too
PivotTable(df) == SumsBy(df, {df.rows[i].stream : i \in DOMAIN df.rows} \ {NaN})

\* line 73: result.columns = [name], for a table that has one column
Renamed(t, name) ==
  [columns |-> << name >>,
   data    |-> [label \in DOMAIN t.data |-> [c \in {name} |-> t.data[label][t.columns[1]]]]]

CellOr(t, label, c, default) ==
  IF label \in DOMAIN t.data THEN t.data[label][c] ELSE default

\* how='inner'
InnerMerge(l, r) ==
  [columns |-> l.columns \o r.columns,
   data    |-> [label \in DOMAIN l.data \cap DOMAIN r.data |->
                  [c \in ColumnSet(l) \cup ColumnSet(r) |->
                     IF c \in ColumnSet(l) THEN l.data[label][c] ELSE r.data[label][c]]]]

\* missing cells filled with 0
OuterMergeFillZero(l, r) ==
  [columns |-> l.columns \o r.columns,
   data    |-> [label \in DOMAIN l.data \cup DOMAIN r.data |->
                  [c \in ColumnSet(l) \cup ColumnSet(r) |->
                     IF c \in ColumnSet(l) THEN CellOr(l, label, c, << 0 >>)
                     ELSE CellOr(r, label, c, << 0 >>)]]]

\* final_result.merge(result, left_index=True, right_index=True, how='outer'),
\* line 78 (the period columns have different names)
OuterMerge(l, r) ==
  [columns |-> l.columns \o r.columns,
   data    |-> [label \in DOMAIN l.data \cup DOMAIN r.data |->
                  [c \in ColumnSet(l) \cup ColumnSet(r) |->
                     IF c \in ColumnSet(l) THEN CellOr(l, label, c, Null)
                     ELSE CellOr(r, label, c, Null)]]]

\* the accumulator seeded anew by every period
MergeIntoSeedAlways(acc, res) == res

\* lines 75-78
MergeInto(acc, res) == IF IsEmpty(acc) THEN res ELSE OuterMerge(acc, res)

\* the statements of the loop body in a different order
LoopBodyMapperFirst ==
  << "read_input", "validate_input", "read_mapper", "validate_mapper", "clean",
     "join", "check_stream", "aggregate", "merge" >>

\* the statements of the loop body, lines 47-78, in order
LoopBody ==
  << "read_input", "validate_input", "clean", "read_mapper", "validate_mapper",
     "join", "check_stream", "aggregate", "merge" >>

\* the statement after p; the loop head follows the merge
StepAfter(p) ==
  LET i == CHOOSE k \in DOMAIN LoopBody : LoopBody[k] = p
  IN  IF i = Len(LoopBody) THEN LoopBody[1] ELSE LoopBody[i + 1]

----------------------------------------------------------------------------
(* SpecUrl: clean_url applied to a URL, and again to its result.            *)

UrlFragments ==
  { <<"h", "t", "t", "p", "s", ":", "/", "/", "x", ".", "t", "e", "s", "t">>,
    <<"/", "c", "o", "l", "l", "e", "g", "e", "s", "/">>,
    <<"/", "c", "o", "l", "l", "e", "g", "e", "/">>,
    <<"a", "b", "c">>,
    <<"-", "c", "o", "u", "r", "s", "e", "s">>,
    <<"/", "r", "e", "v", "i", "e", "w", "s">>,
    <<"-", "d", "p", "i", "d">>,
    <<"-", "d", "p">>,
    <<"-", "c", "p", "d">>,
    <<":">>,
    <<";">>,
    <<"?", "q">>,
    <<"\t">>,
    <<" ">>,
    <<"/">>,
    <<"-", "d">>,
    <<"p", "i", "d", "1">> }

ExampleUrl == <<"h", "t", "t", "p", "s", ":", "/", "/", "x", ".", "t", "e", "s", "t", "/", "c", "o", "l", "l", "e", "g", "e", "s", "/", "n", "u", "r", "s", "i", "n", "g", "-", "c", "o", "l", "l", "e", "g", "e", "-", "a", "b", "c", "-", "d", "p", "i", "d", "1", "2", "3">>
ExampleKey == <<"n", "u", "r", "s", "i", "n", "g", "-", "c", "o", "l", "l", "e", "g", "e", "-", "a", "b", "c">>

RECURSIVE Concat(_)
Concat(fs) == IF fs = <<>> THEN <<>> ELSE Head(fs) \o Concat(Tail(fs))

\* the URLs clean_url is tried on
Urls ==
  {ExampleUrl} \cup {Concat(fs) : fs \in UNION {[1..k -> UrlFragments] : k \in 0..MaxFrags}}

PipeIdle ==
  /\ pc = "off" /\ input_url_files = <<>> /\ mapper_file = NoFile /\ idx = 0
  /\ df1 = NoTable /\ df2 = NoTable /\ mrgdf = NoTable /\ result = NoTable
  /\ final_result = NoTable /\ result_df = NoTable /\ error = NoError
  /\ output_file = NoFile /\ mapper_reads = 0 /\ steps = <<>> /\ aggs = <<>>

InitUrl ==
  /\ upc = "input"
  /\ url \in Urls
  /\ stripped = <<>> /\ truncated = <<>> /\ once = <<>> /\ twice = <<>>
  /\ PipeIdle

\* clean_url(url), with the values cleaned_url takes on the way
CleanUrl ==
  /\ upc = "input"
  /\ stripped' = RemoveTerms(RemoveListing(url))
  /\ truncated' = SuffixTruncate(stripped')
  /\ once' = StripLeadingSlashes(UrlPath(truncated'))
  /\ upc' = "cleaned"
  /\ UNCHANGED <<url, twice, pipeVars>>

\* clean_url applied to the key it returned
CleanAgain ==
  /\ upc = "cleaned"
  /\ twice' = clean_url(once)
  /\ upc' = "recleaned"
  /\ UNCHANGED <<url, stripped, truncated, once, pipeVars>>

NextUrl == CleanUrl \/ CleanAgain

SpecUrl == InitUrl /\ [][NextUrl]_vars

----------------------------------------------------------------------------
(* Spec: one run of main with every upload present.                         *)

Init ==
  /\ upc = "off" /\ url = <<>> /\ stripped = <<>> /\ truncated = <<>>
  /\ once = <<>> /\ twice = <<>>
  /\ pc = "main"
  /\ input_url_files \in {SubSeq(PeriodNames, 1, n) : n \in 1..Len(custom_column_names)}
  /\ mapper_file \in MapperTables
  /\ idx = 0
  /\ df1 = NoTable /\ df2 = NoTable /\ mrgdf = NoTable /\ result = NoTable
  /\ final_result = NoTable /\ result_df = NoTable
  /\ error = NoError /\ output_file = NoFile
  /\ mapper_reads = 0 /\ steps = <<>> /\ aggs = <<>>

\* line 125 calls, line 37 runs
Call ==
  /\ pc = "main"
  /\ final_result' = EmptyFrame
  /\ pc' = LoopBody[1]
  /\ UNCHANGED <<urlVars, input_url_files, mapper_file, idx, df1, df2, mrgdf,
                 result, result_df, error, output_file, mapper_reads, steps, aggs>>

\* lines 47-49: the next period file is read and its column names lowered
ReadInput ==
  /\ pc = "read_input"
  /\ idx < Len(input_url_files)
  /\ \E t \in PeriodTables(input_url_files[idx + 1]) : df1' = normalize_columns(t)
  /\ steps' = << "read_input" >>
  /\ pc' = StepAfter(pc)
  /\ UNCHANGED <<urlVars, input_url_files, mapper_file, idx, df2, mrgdf, result,
                 final_result, result_df, error, output_file, mapper_reads, aggs>>

\* lines 52-53
ValidateInput ==
  /\ pc = "validate_input"
  /\ steps' = Append(steps, "validate_input")
  /\ IF InputColumnsOk(df1)
     THEN pc' = StepAfter(pc) /\ error' = error
     ELSE /\ pc' = "raised"
          /\ error' = [type |-> "ValueError", missing |-> "url or sessions",
                       file |-> df1.name]
  /\ UNCHANGED <<urlVars, input_url_files, mapper_file, idx, df1, df2, mrgdf,
                 result, final_result, result_df, output_file, mapper_reads, aggs>>

\* line 56
CleanUrls ==
  /\ pc = "clean"
  /\ df1' = WithCleanedUrl(df1)
  /\ steps' = Append(steps, "clean")
  /\ pc' = StepAfter(pc)
  /\ UNCHANGED <<urlVars, input_url_files, mapper_file, idx, df2, mrgdf, result,
                 final_result, result_df, error, output_file, mapper_reads, aggs>>

\* line 59: the mapper file is read in every iteration
ReadMapper ==
  /\ pc = "read_mapper"
  /\ df2' = normalize_columns(mapper_file)
  /\ mapper_reads' = mapper_reads + 1
  /\ steps' = Append(steps, "read_mapper")
  /\ pc' = StepAfter(pc)
  /\ UNCHANGED <<urlVars, input_url_files, mapper_file, idx, df1, mrgdf, result,
                 final_result, result_df, error, output_file, aggs>>

\* lines 62-63
ValidateMapper ==
  /\ pc = "validate_mapper"
  /\ steps' = Append(steps, "validate_mapper")
  /\ IF MapperColumnsOk(df2)
     THEN pc' = StepAfter(pc) /\ error' = error
     ELSE /\ pc' = "raised"
          /\ error' = [type |-> "ValueError", missing |-> "cleaned_url",
                       file |-> mapper_file.name]
  /\ UNCHANGED <<urlVars, input_url_files, mapper_file, idx, df1, df2, mrgdf,
                 result, final_result, result_df, output_file, mapper_reads, aggs>>

\* line 66
Join ==
  /\ pc = "join"
  /\ mrgdf' = LeftJoin(df1, df2)
  /\ steps' = Append(steps, "join")
  /\ pc' = StepAfter(pc)
  /\ UNCHANGED <<urlVars, input_url_files, mapper_file, idx, df1, df2, result,
                 final_result, result_df, error, output_file, mapper_reads, aggs>>

\* lines 69-70
CheckStream ==
  /\ pc = "check_stream"
  /\ steps' = Append(steps, "check_stream")
  /\ IF StreamColumnOk(mrgdf)
     THEN pc' = StepAfter(pc) /\ error' = error
     ELSE /\ pc' = "raised"
          /\ error' = [type |-> "ValueError", missing |-> "stream",
                       file |-> df1.name]
  /\ UNCHANGED <<urlVars, input_url_files, mapper_file, idx, df1, df2, mrgdf,
                 result, final_result, result_df, output_file, mapper_reads, aggs>>

\* lines 72-73; pivot_table raises KeyError when there is no sessions column,
\* and the assignment to result.columns raises ValueError (length mismatch)
\* when the pivot table has no column to rename
Aggregate ==
  /\ pc = "aggregate"
  /\ steps' = Append(steps, "aggregate")
  /\ IF "sessions" \notin mrgdf.columns
     THEN /\ pc' = "raised"
          /\ error' = [type |-> "KeyError", missing |-> "sessions", file |-> "none"]
          /\ UNCHANGED <<result, aggs>>
     ELSE IF Len(PivotTable(mrgdf).columns) # 1
     THEN /\ pc' = "raised"
          /\ error' = [type |-> "ValueError", missing |-> "none", file |-> "none"]
          /\ UNCHANGED <<result, aggs>>
     ELSE /\ result' = Renamed(PivotTable(mrgdf), custom_column_names[idx + 1])
          /\ aggs' = Append(aggs, result')
          /\ pc' = StepAfter(pc)
          /\ error' = error
  /\ UNCHANGED <<urlVars, input_url_files, mapper_file, idx, df1, df2, mrgdf,
                 final_result, result_df, output_file, mapper_reads>>

\* lines 75-78, and the loop goes on to the next file
Merge ==
  /\ pc = "merge"
  /\ final_result' = MergeInto(final_result, result)
  /\ steps' = Append(steps, "merge")
  /\ idx' = idx + 1
  /\ pc' = StepAfter(pc)
  /\ UNCHANGED <<urlVars, input_url_files, mapper_file, df1, df2, mrgdf, result,
                 result_df, error, output_file, mapper_reads, aggs>>

\* line 80, the value bound on line 125
Return ==
  /\ pc = "read_input"
  /\ idx = Len(input_url_files)
  /\ result_df' = final_result
  /\ pc' = "returned"
  /\ UNCHANGED <<urlVars, input_url_files, mapper_file, idx, df1, df2, mrgdf,
                 result, final_result, error, output_file, mapper_reads, steps, aggs>>

\* lines 128-146: the table is written to the output path and offered
WriteOutput ==
  /\ pc = "returned"
  /\ output_file' = result_df
  /\ pc' = "done"
  /\ UNCHANGED <<urlVars, input_url_files, mapper_file, idx, df1, df2, mrgdf,
                 result, final_result, result_df, error, mapper_reads, steps, aggs>>

\* lines 148-149: the exception is shown, nothing is written
ReportError ==
  /\ pc = "raised"
  /\ pc' = "failed"
  /\ UNCHANGED <<urlVars, input_url_files, mapper_file, idx, df1, df2, mrgdf,
                 result, final_result, result_df, error, output_file,
                 mapper_reads, steps, aggs>>

Next ==
  \/ Call
  \/ ReadInput
  \/ ValidateInput
  \/ CleanUrls
  \/ ReadMapper
  \/ ValidateMapper
  \/ Join
  \/ CheckStream
  \/ Aggregate
  \/ Merge
  \/ Return
  \/ WriteOutput
  \/ ReportError

Spec == Init /\ [][Next]_vars
----------------------------------------------------------------------------
(* Properties of clean_url (checked under SpecUrl).                         *)

HasListing(s) == Contains(s, ListingColleges) \/ Contains(s, ListingCollege)
HasTerm(s)    == \E k \in DOMAIN unwanted_terms : Contains(s, unwanted_terms[k])
HasSuffix(s)  == Contains(s, SufDpid) \/ Contains(s, SufDp) \/ Contains(s, SufCpd)
Cleaned       == upc \in {"cleaned", "recleaned"}

\* the portion of s before the earliest occurrence of a suffix marker
BeforeEarliestSuffix(s) ==
  LET at == {Find(s, m, 1) : m \in {SufDpid, SufDp, SufCpd}} \ {0}
  IN  IF at = {} THEN s ELSE SubSeq(s, 1, Min(at) - 1)

\* the key C2 describes: the path component of the URL, the listing segment
\* removed, the leading slash stripped, cut before a suffix marker
PathKey(u) ==
  Then(UrlPath(u), LAMBDA p :
    Then(RemoveListing(p), LAMBDA q : BeforeEarliestSuffix(StripLeadingSlashes(q))))

\* C2: for every URL without a subsection marker, relative or absolute,
\* clean_url returns the URL's path with the listing segment removed and the
\* leading slash stripped, cut before a suffix marker; the example URL
\* https://x.test/colleges/nursing-college-abc-dpid123 gives nursing-college-abc.
C2_PathOfUnmarkedUrl ==
  (Cleaned /\ ~HasTerm(url)) =>
     /\ once = PathKey(url)
     /\ (url = ExampleUrl => once = ExampleKey)

\* a key with no listing segment, subsection marker or suffix marker in it
Canonical(v) == ~HasListing(v) /\ ~HasTerm(v) /\ ~HasSuffix(v)

\* C8 as stated: whenever clean_url(u) has no listing segment, subsection
\* marker or suffix marker, clean_url(clean_url(u)) = clean_url(u).
C8_IdempotentOnCanonical ==
  (upc = "recleaned" /\ Canonical(once)) => twice = once

\* a key urlparse reads as a bare path: no ':' (a scheme), no ';' (params),
\* no leading space or control character (stripped)
PlainPath(v) ==
  /\ ~Contains(v, <<":">>)
  /\ ~Contains(v, <<";">>)
  /\ (v = <<>> \/ v[1] \notin WhatwgC0ControlOrSpace)

\* C8 amended: whenever clean_url(u) has no listing segment, subsection
\* marker or suffix marker, and moreover contains no ':' and no ';' and does
\* not begin with a space or control character, clean_url(clean_url(u)) =
\* clean_url(u).
C8_IdempotentOnPlainCanonical ==
  (upc = "recleaned" /\ Canonical(once) /\ PlainPath(once)) => twice = once

\* a URL that lost a listing segment and a suffix, and whose key is stable
C8_Witness ==
  /\ upc = "recleaned"
  /\ HasListing(url) /\ HasSuffix(url)
  /\ once # <<>> /\ Canonical(once) /\ PlainPath(once)
  /\ twice = once

\* C9 as stated: truncation acts on the string left by subsection-marker
\* removal and keeps exactly what precedes the earliest suffix marker (all of
\* it when there is none); the value returned never contains -dp or -cpd.
C9_TruncationAndResult ==
  Cleaned =>
     /\ stripped = RemoveTerms(RemoveListing(url))
     /\ truncated = BeforeEarliestSuffix(stripped)
     /\ ~Contains(once, SufDp) /\ ~Contains(once, SufCpd)

\* C9 amended: truncation acts on the string left by subsection-marker
\* removal and keeps exactly what precedes the earliest suffix marker (all of
\* it when there is none); the truncated string never contains -dp or -cpd,
\* and neither does the value returned when the URL has no tab (carriage
\* return, newline) in it.
C9_TruncationBeforeParse ==
  Cleaned =>
     /\ stripped = RemoveTerms(RemoveListing(url))
     /\ truncated = BeforeEarliestSuffix(stripped)
     /\ ~Contains(truncated, SufDp) /\ ~Contains(truncated, SufCpd)
     /\ (~Contains(url, <<"\t">>) =>
           ~Contains(once, SufDp) /\ ~Contains(once, SufCpd))

\* a suffix marker that follows a subsection marker: both are gone
C9_Witness ==
  /\ Cleaned
  /\ HasTerm(url) /\ ~HasTerm(stripped)
  /\ HasSuffix(stripped)
  /\ truncated # <<>> /\ Len(truncated) < Len(stripped)
  /\ once = truncated

----------------------------------------------------------------------------
(* Properties of the run (checked under Spec).                              *)

Labels == {"S1", "S2"}

Range(q) == {q[i] : i \in DOMAIN q}

IsTable(t) == t # NoTable

\* the period column being filled in the current iteration
PeriodColumn == custom_column_names[idx + 1]

\* the session rows of the current period whose cleaned URL the mapper maps
\* to label, each row once
RowsMappedTo(label) ==
  SelectSeq(df1.rows, LAMBDA r :
    \E i \in DOMAIN df2.rows :
       /\ df2.rows[i].cleaned_url = clean_url(r.url)
       /\ df2.rows[i].stream = label)

\* C1: the value of a label in a period's column is the exact sum of sessions
\* over the period's session rows whose clean_url(url) maps to the label, each
\* session row counted once, also when a cleaned_url repeats in the mapper.
C1_ExactSumPerLabel ==
  (pc = "merge" /\ "stream" \in df2.columns /\ "stream" \notin df1.columns) =>
     \A label \in Labels :
        LET hit == RowsMappedTo(label)
        IN  IF hit = <<>> THEN label \notin DOMAIN result.data
            ELSE /\ label \in DOMAIN result.data
                 /\ result.data[label][PeriodColumn] =
                      << Sum([i \in DOMAIN hit |-> hit[i].sessions]) >>

UnmappedRows == SelectSeq(mrgdf.rows, LAMBDA r : r.stream = NaN)
MappedRows   == SelectSeq(mrgdf.rows, LAMBDA r : r.stream # NaN)

\* the sum of the cells of the column of a one-column aggregate
ColumnTotal(t) ==
  LET RECURSIVE Tot(_)
      Tot(S) == IF S = {} THEN 0
                ELSE LET l == CHOOSE x \in S : TRUE
                     IN  t.data[l][t.columns[1]][1] + Tot(S \ {l})
  IN  Tot(DOMAIN t.data)

\* C3 as stated: joined rows with a null stream are not dropped by the
\* aggregation: they form a group of their own whose summed sessions are in
\* the period's aggregate.
C3_UnmappedGroupKept ==
  (pc = "merge" /\ UnmappedRows # <<>>) =>
     /\ NaN \in DOMAIN result.data
     /\ result.data[NaN][PeriodColumn] =
          << Sum([i \in DOMAIN UnmappedRows |-> UnmappedRows[i].sessions]) >>

\* C3 amended: joined rows with a null stream are dropped by the aggregation:
\* the period's aggregate has no group for them, its groups are exactly the
\* non-null streams of the joined rows, its values add up to the sessions of
\* the joined rows with a stream, and the result table has no row for them.
C3_UnmappedRowsDropped ==
  /\ (pc = "merge" /\ IsTable(result)) =>
       /\ DOMAIN result.data = {MappedRows[i].stream : i \in DOMAIN MappedRows}
       /\ ColumnTotal(result) = Sum([i \in DOMAIN MappedRows |-> MappedRows[i].sessions])
  /\ IsTable(final_result) => NaN \notin DOMAIN final_result.data

\* a period with an unmapped row beside a mapped one has been merged
C3_Witness ==
  /\ pc = "read_input" /\ idx >= 1
  /\ UnmappedRows # <<>> /\ MappedRows # <<>>
  /\ DOMAIN final_result.data # {}

\* C4: a run that returns for k period files returns a table with exactly k
\* columns, the first k period labels in processing order.
C4_OneColumnPerPeriod ==
  pc \in {"returned", "done"} =>
     /\ idx = Len(input_url_files)
     /\ result_df.columns = SubSeq(custom_column_names, 1, idx)

\* three period files, three columns, rows in the table
C4_Witness ==
  /\ pc = "returned" /\ Len(input_url_files) = 3
  /\ result_df.columns = custom_column_names
  /\ DOMAIN result_df.data = {"S1", "S2"}

Running == pc \notin {"raised", "failed"}

\* C5: a period file without url or sessions, a mapper without cleaned_url, or
\* a join without stream stops the run where it is checked, in whichever
\* period, with a ValueError naming the period file (the mapper file for
\* cleaned_url); no table is returned and main writes no output file.
C5_AbortOnMissingColumn ==
  /\ (Running /\ "validate_input" \in Range(steps)) =>
        {"url", "sessions"} \subseteq df1.columns
  /\ (Running /\ "validate_mapper" \in Range(steps)) => "cleaned_url" \in df2.columns
  /\ (Running /\ "check_stream" \in Range(steps)) => "stream" \in mrgdf.columns
  /\ Running => error = NoError
  /\ ~Running =>
        /\ error # NoError
        /\ error.type = "ValueError"
        /\ error.missing \in {"url or sessions", "cleaned_url", "stream", "none"}
        /\ result_df = NoTable
        /\ output_file = NoFile
        /\ error.missing = "url or sessions" =>
              /\ error.file = input_url_files[idx + 1]
              /\ ~({"url", "sessions"} \subseteq df1.columns)
        /\ error.missing = "cleaned_url" =>
              /\ error.file = mapper_file.name
              /\ "cleaned_url" \notin df2.columns
        /\ error.missing = "stream" =>
              /\ error.file = input_url_files[idx + 1]
              /\ "stream" \notin mrgdf.columns

\* the third period file fails after two periods were merged: the two
\* columns are lost with the run
C5_Witness ==
  /\ pc = "failed" /\ idx = 2
  /\ error.file = "period3"
  /\ Len(final_result.columns) = 2 /\ DOMAIN final_result.data # {}
  /\ result_df = NoTable /\ output_file = NoFile

\* the labels of the aggregates of the periods merged so far
LabelsSoFar == UNION {DOMAIN aggs[k].data : k \in 1..idx}

\* C6: after every merge step the index of the accumulated table is the union
\* of the label sets of the period aggregates processed so far.
C6_RowsAreUnionOfLabels ==
  IsTable(final_result) =>
     /\ idx <= Len(aggs)
     /\ pc # "merge" => Len(aggs) = idx
     /\ DOMAIN final_result.data = LabelsSoFar

\* three periods merged, no label in all of them, both labels in the table
C6_Witness ==
  /\ pc = "done" /\ idx = 3
  /\ DOMAIN aggs[1].data = {"S1"}
  /\ DOMAIN aggs[2].data = {"S2"}
  /\ DOMAIN output_file.data = {"S1", "S2"}

\* the cell of label in the column of period k, Null when the table has no
\* such column
Cell(t, label, k) ==
  IF custom_column_names[k] \in ColumnSet(t)
  THEN t.data[label][custom_column_names[k]] ELSE Null

\* what C7 says the cell is
PeriodCell(label, k) ==
  IF label \in DOMAIN aggs[k].data
  THEN aggs[k].data[label][custom_column_names[k]] ELSE Null

CellsArePeriodSums ==
  IsTable(final_result) =>
     \A label \in DOMAIN final_result.data : \A k \in 1..idx :
        Cell(final_result, label, k) = PeriodCell(label, k)

EarlierCellsKept ==
  (IsTable(final_result) /\ IsTable(final_result')) =>
     \A label \in DOMAIN final_result.data :
        \A i \in 1..Len(final_result.columns) :
           /\ label \in DOMAIN final_result'.data
           /\ final_result.columns[i] \in ColumnSet(final_result')
           /\ final_result'.data[label][final_result.columns[i]] =
                final_result.data[label][final_result.columns[i]]

\* C7: every cell of the table holds the period's sum for the label when the
\* label is in that period's aggregate and is null otherwise, and a merge
\* leaves the cells of the earlier columns as they were.
C7_CellsKeptAcrossMerges == []CellsArePeriodSums /\ [][EarlierCellsKept]_vars

\* a label seen in the second period only: null, its sum, null
C7_Witness ==
  /\ pc = "done"
  /\ Len(output_file.columns) = 3
  /\ \E label \in DOMAIN output_file.data :
        /\ Cell(output_file, label, 1) = Null
        /\ Cell(output_file, label, 2) = << 2 >>
        /\ Cell(output_file, label, 3) = Null

\* the steps of an iteration other than the two reads, in the order C10 gives
StepsOfPeriod ==
  << "validate_input", "clean", "validate_mapper", "join", "check_stream",
     "aggregate", "merge" >>

IsPrefix(p, q) == Len(p) <= Len(q) /\ SubSeq(q, 1, Len(p)) = p

\* C10 as stated: the mapper is read (and validated) once in a run over N
\* period files, and each period runs its steps in the order given.
C10_MapperReadOnce ==
  /\ pc \in {"returned", "done"} => mapper_reads = 1
  /\ IsPrefix(SelectSeq(steps, LAMBDA x : x \in Range(StepsOfPeriod)), StepsOfPeriod)

\* C10 amended: the mapper file is read and validated once per period file,
\* N times in a run over N period files, each read between computing
\* cleaned_url and validating the mapper and each giving the same table; each
\* period runs its steps in the order given.
C10_MapperReadPerPeriod ==
  /\ pc \in {"returned", "done"} => mapper_reads = Len(input_url_files)
  /\ (pc = "read_input" /\ idx >= 1) =>
        /\ mapper_reads = idx
        /\ SelectSeq(steps, LAMBDA x : x \in Range(StepsOfPeriod)) = StepsOfPeriod
  /\ IsPrefix(SelectSeq(steps, LAMBDA x : x \in Range(StepsOfPeriod)), StepsOfPeriod)
  /\ "validate_mapper" \in Range(steps) =>
        \E i \in 2..(Len(steps) - 1) :
           /\ steps[i - 1] = "clean"
           /\ steps[i] = "read_mapper"
           /\ steps[i + 1] = "validate_mapper"
  /\ IsTable(df2) => df2 = normalize_columns(mapper_file)

\* three period files processed, the mapper read for each
C10_Witness ==
  /\ pc = "done" /\ Len(input_url_files) = 3
  /\ mapper_reads = 3
  /\ Len(output_file.columns) = 3

====
